---------------------------- MODULE Spec2Model ----------------------------
(***************************************************************************)
(* A model of nez (src/main.rs): an LLG spin-chain integrator.  main()     *)
(* creates a Zarr store and array, then for step in 0..=N_STEPS writes the *)
(* current chain as one time slice, prints a progress line every 50th      *)
(* step and replaces the chain by rk4_step(chain).  rk4_step evaluates     *)
(* four stages, each a rayon parallel map over the sites, and combines     *)
(* them with one normalisation per site.                                   *)
(*                                                                         *)
(* Arithmetic.  The program computes in f64.  The model computes in signed *)
(* fixed point: a real x is the integer round(x * SCALE), every product    *)
(* and quotient is rounded once (half away from zero), in the order the    *)
(* source evaluates them.  Units are chosen so that the parameters fit:    *)
(* time in 1e-11 s, length in 1e-9 m, field in tesla.  Sites are numbered  *)
(* 1..N here and 0..N-1 in the source; time indices are the source's.      *)
(***************************************************************************)
EXTENDS Integers, Sequences, FiniteSets, TLC

(***************************************************************************)
(* Bounds of the model.                                                    *)
(***************************************************************************)
\* chain length used for N_SPINS (the program's is 128)
MaxSpins == 3
\* number of time steps used for N_STEPS (the program's is 50)
MaxSteps == 2
\* largest size of the rayon thread pool
MaxWorkers == 2
\* fixed-point resolution: x is represented by round(x * SCALE)
SCALE == 1000
\* the time step, in thousandths of the time unit; the program's 1e-14 s is 1,
\* at which one step changes a moment by less than the resolution
DtCoarse == 100

(***************************************************************************)
(* Fixed-point arithmetic                                                  *)
(***************************************************************************)
\* a / b for b > 0, rounded to nearest, halves away from zero
RDiv(a, b) == IF a >= 0 THEN (2 * a + b) \div (2 * b)
                        ELSE -((2 * (-a) + b) \div (2 * b))

\* the fixed-point number num/den
Fx(num, den) == RDiv(num * SCALE, den)

FMul(a, b) == RDiv(a * b, SCALE)
FDiv(a, b) == RDiv(a * SCALE, b)

RECURSIVE SqrtSearch(_, _, _)
SqrtSearch(n, lo, hi) ==
    IF lo >= hi THEN lo
    ELSE LET mid == (lo + hi + 1) \div 2
         IN  IF mid * mid <= n THEN SqrtSearch(n, mid, hi)
                               ELSE SqrtSearch(n, lo, mid - 1)

\* the integer nearest to sqrt(n)
ISqrt(n) == LET r == SqrtSearch(n, 0, 46340)
            IN  IF n - r * r > r THEN r + 1 ELSE r

(***************************************************************************)
(* Vector3<f64>                                                            *)
(***************************************************************************)
Vec(x, y, z) == <<x, y, z>>
Zero3 == Vec(0, 0, 0)

VAdd(a, b) == Vec(a[1] + b[1], a[2] + b[2], a[3] + b[3])
VSub(a, b) == Vec(a[1] - b[1], a[2] - b[2], a[3] - b[3])
\* scalar * vector
VScale(c, v) == Vec(FMul(c, v[1]), FMul(c, v[2]), FMul(c, v[3]))
\* vector / scalar
VDivS(v, c) == Vec(FDiv(v[1], c), FDiv(v[2], c), FDiv(v[3], c))

Cross(a, b) == Vec(FMul(a[2], b[3]) - FMul(a[3], b[2]),
                   FMul(a[3], b[1]) - FMul(a[1], b[3]),
                   FMul(a[1], b[2]) - FMul(a[2], b[1]))

\* |v| in fixed point
Norm(v) == ISqrt(v[1] * v[1] + v[2] * v[2] + v[3] * v[3])

\* v / |v|
normalize(v) == VDivS(v, Norm(v))

RECURSIVE SeqOf(_, _)
\* the sequence <<f(1), ..., f(n)>>
SeqOf(f(_), n) == IF n = 0 THEN << >> ELSE Append(SeqOf(f, n - 1), f(n))

(***************************************************************************)
(* Simulation parameters                                                   *)
(***************************************************************************)
N_SPINS == MaxSpins
N_STEPS == MaxSteps

\* lattice spacing 2.5e-9 m, in nm
D == Fx(5, 2)
\* 1.760859e11 rad/(s T), in rad per time unit per tesla
GAMMA == Fx(1761, 1000)
ALPHA == Fx(1, 5)
\* 1.3e-11 J/m, in 1e-12 J/m
A_EX == Fx(13, 1)
\* 4 pi 1e5, in 1e6
MU0_MS == Fx(12566, 10000)
DT == Fx(DtCoarse, 1000)
H_EXT == Vec(0, 0, Fx(1, 1))

\* progress is printed when step % 50 == 0
ReportEvery == 50

HALF == Fx(1, 2)
TWO == Fx(2, 1)
SIX == Fx(6, 1)

\* sin and cos of the 10 degree tilt
SinTilt == Fx(1736, 10000)
CosTilt == Fx(9848, 10000)

(***************************************************************************)
(* llg_rhs, exchange_field                                                 *)
(***************************************************************************)
llg_rhs(m, h_eff) ==
    LET mxh   == Cross(m, h_eff)
        mxmxh == Cross(m, mxh)
        pref  == FDiv(-GAMMA, Fx(1, 1) + FMul(ALPHA, ALPHA))
    IN  VScale(pref, VAdd(mxh, VScale(ALPHA, mxmxh)))

\* the exchange field with the missing neighbour of a boundary site taken as
\* the zero vector
exchange_field_zero_pad(chain_, i) ==
    LET m_i   == chain_[i]
        m_ip1 == IF i + 1 <= Len(chain_) THEN chain_[i + 1] ELSE Zero3
        m_im1 == IF i > 1 THEN chain_[i - 1] ELSE Zero3
        lap   == VAdd(VSub(m_ip1, VScale(TWO, m_i)), m_im1)
    IN  VDivS(VScale(FDiv(FMul(TWO, A_EX), MU0_MS), lap), FMul(D, D))

exchange_field(chain_, i) ==
    LET m_i   == chain_[i]
        m_ip1 == IF i + 1 <= Len(chain_) THEN chain_[i + 1] ELSE chain_[i]
        m_im1 == IF i > 1 THEN chain_[i - 1] ELSE chain_[i]
        lap   == VAdd(VSub(m_ip1, VScale(TWO, m_i)), m_im1)
    IN  VDivS(VScale(FDiv(FMul(TWO, A_EX), MU0_MS), lap), FMul(D, D))


(***************************************************************************)
(* rk4_step: the pure parts                                                *)
(***************************************************************************)
Sites(chain_) == 1 .. Len(chain_)

\* the closure of one parallel map: the right-hand side at site i of snapshot
TaskResult(snapshot, i) ==
    llg_rhs(snapshot[i], VAdd(H_EXT, exchange_field(snapshot, i)))

\* collect() of an indexed parallel iterator: the result for site i goes to
\* slot i of the output.  A faulty variant puts it one slot further.
StoreResultShifted(o, i, v) == [o EXCEPT ![(i % Len(o)) + 1] = v]

StoreResult(o, i, v) == [o EXCEPT ![i] = v]

\* the factor of the trial chain that stage s is evaluated on
StageCoef(s) == IF s = 4 THEN DT ELSE FMul(HALF, DT)

\* a trial chain that is renormalised site by site
TrialNormalized(chain_, kk, c) ==
    SeqOf(LAMBDA i : normalize(VAdd(chain_[i], VScale(c, kk[i]))), Len(chain_))

\* tmp: chain + c * k, site by site
Trial(chain_, kk, c) ==
    SeqOf(LAMBDA i : VAdd(chain_[i], VScale(c, kk[i])), Len(chain_))

\* final update + renormalise, at one site
CombineSite(m, k1, k2, k3, k4) ==
    LET sum  == VAdd(VAdd(VAdd(k1, VScale(TWO, k2)), VScale(TWO, k3)), k4)
        next == VAdd(m, VScale(FDiv(DT, SIX), sum))
    IN  normalize(next)

(***************************************************************************)
(* main: the pure parts                                                    *)
(***************************************************************************)
Tilted == Vec(SinTilt, 0, CosTilt)

\* vec![Vector3::new(tilt.sin(), 0.0, tilt.cos()); N_SPINS]
InitialChain == SeqOf(LAMBDA i : Tilted, N_SPINS)

\* the declared shape of the array /m
ArrayShape == <<N_STEPS + 1, 1, 1, N_SPINS, 3>>

\* a subset whose time range is one too far
SliceSubsetShifted(s) == << <<s + 1, s + 2>>, <<0, N_SPINS>>, <<0, 1>>, <<0, 1>>, <<0, 3>> >>

\* the ranges lo..hi (hi excluded) of the subset written at loop index s
SliceSubset(s) == << <<s, s + 1>>, <<0, N_SPINS>>, <<0, 1>>, <<0, 1>>, <<0, 3>> >>

RECURSIVE Flatten(_)
\* flat: x, y, z of every site in order
Flatten(chain_) ==
    IF chain_ = << >> THEN << >>
    ELSE <<chain_[1][1], chain_[1][2], chain_[1][3]>> \o Flatten(Tail(chain_))

RECURSIVE SumZ(_)
SumZ(chain_) == IF chain_ = << >> THEN 0 ELSE chain_[1][3] + SumZ(Tail(chain_))

\* the progress line: t and the mean z component
ProgressLine(s, chain_) == <<s * DT, FDiv(SumZ(chain_), N_SPINS * SCALE)>>

\* a loop that stops one index early
LastStepExclusive == N_STEPS - 1

\* the last value of step in 0..=N_STEPS
LastStep == N_STEPS

\* an error that is swallowed
AfterIoIgnore(ok, next) == next

\* the ? operator: on Err main returns the error, otherwise it goes on
AfterIo(ok, next) == IF ok THEN next ELSE "failed"

(***************************************************************************)
(* State                                                                   *)
(***************************************************************************)
VARIABLES
    pc,           \* where main is
    storeExists,  \* magnetization.zarr is on disk
    ioLog,        \* the fallible store operations attempted, in order
    printed,      \* the progress lines printed
    step,         \* the loop variable
    chain,        \* main's chain
    rk4Calls,     \* rk4_step invocations so far
    rk4Returns,   \* rk4_step invocations that have returned
    workers,      \* size of the rayon thread pool
    stage,        \* inside rk4_step: 1..4 while k<stage> is evaluated, 5 before
                  \* the final update, 0 outside
    tmp,          \* the snapshot the current stage maps over
    k,            \* k[s]: the collected output of stage s
    out,          \* the output of the running parallel map, slot by slot
    task,         \* per site: "todo", "run" or "done" in the running map
    busy,         \* per worker: the site it is running, 0 if idle
    begun,        \* history: begun[s] is the sites whose stage-s task started
    finished      \* history: finished[s] is the sites whose stage-s task ended

vars == <<pc, storeExists, ioLog, printed, step, chain, rk4Calls, rk4Returns,
          workers, stage, tmp, k, out, task, busy, begun, finished>>

mainVars == <<storeExists, ioLog, printed, step>>
rk4Vars  == <<stage, tmp, k, out, task, busy, begun, finished>>

Stages == 1 .. 4

\* a slot no task has written yet holds this placeholder
Unwritten == Zero3

NoStage == [s \in Stages |-> {}]

Rk4Idle ==
    /\ stage = 0
    /\ tmp = << >>
    /\ k = [s \in Stages |-> << >>]
    /\ out = << >>
    /\ task = << >>
    /\ begun = NoStage
    /\ finished = NoStage

\* main's initial state
Init ==
    /\ pc = "remove"
    /\ storeExists \in BOOLEAN
    /\ ioLog = << >>
    /\ printed = << >>
    /\ step = 0
    /\ chain = InitialChain
    /\ rk4Calls = 0
    /\ rk4Returns = 0
    /\ workers \in 1 .. MaxWorkers
    /\ busy = [w \in 1 .. workers |-> 0]
    /\ Rk4Idle

(***************************************************************************)
(* main: store set-up                                                      *)
(*                                                                         *)
(* The file system and the zarrs library are outside the source: every     *)
(* fallible operation on them either succeeds or returns an error.         *)
(***************************************************************************)
IoEntry(op, ok) == [op |-> op, subset |-> << >>, data |-> << >>, ok |-> ok]

\* if the folder exists, fs::remove_dir_all(store_path)?
RemoveExisting ==
    /\ pc = "remove"
    /\ IF storeExists
       THEN \E ok \in BOOLEAN :
              /\ ioLog' = Append(ioLog, IoEntry("remove", ok))
              /\ storeExists' = ~ok
              /\ pc' = AfterIo(ok, "store")
       ELSE /\ pc' = "store"
            /\ UNCHANGED <<ioLog, storeExists>>
    /\ UNCHANGED <<printed, step, chain, rk4Calls, rk4Returns, workers>>
    /\ UNCHANGED rk4Vars

Setup(op, from, to) ==
    /\ pc = from
    /\ \E ok \in BOOLEAN :
         /\ ioLog' = Append(ioLog, IoEntry(op, ok))
         /\ pc' = AfterIo(ok, to)
    /\ UNCHANGED <<storeExists, printed, step, chain, rk4Calls, rk4Returns, workers>>
    /\ UNCHANGED rk4Vars

\* FilesystemStore::new(store_path)?
CreateStore == Setup("store", "store", "group")

\* GroupBuilder::new().build(store, "/")?.store_metadata()?
CreateGroup == Setup("group", "group", "array")

\* ArrayBuilder::new(shape, ...).build(store, "/m")?
BuildArray == Setup("array", "array", "metadata")

\* array.store_metadata()?
StoreMetadata == Setup("metadata", "metadata", "write")

(***************************************************************************)
(* main: the time loop                                                     *)
(***************************************************************************)
\* array.store_array_subset_elements(&subset, &flat)?
WriteSlice ==
    /\ pc = "write"
    /\ \E ok \in BOOLEAN :
         /\ ioLog' = Append(ioLog, [op |-> "write", subset |-> SliceSubset(step),
                                    data |-> Flatten(chain), ok |-> ok])
         /\ pc' = AfterIo(ok, "progress")
    /\ UNCHANGED <<storeExists, printed, step, chain, rk4Calls, rk4Returns, workers>>
    /\ UNCHANGED rk4Vars

\* if step % 50 == 0 { println!(...) }
Progress ==
    /\ pc = "progress"
    /\ printed' = IF step % ReportEvery = 0
                  THEN Append(printed, ProgressLine(step, chain))
                  ELSE printed
    /\ pc' = "call"
    /\ UNCHANGED <<storeExists, ioLog, step, chain, rk4Calls, rk4Returns, workers>>
    /\ UNCHANGED rk4Vars

\* the end of the loop body: the next step, or Ok(()) after the last one
LoopNext ==
    /\ pc = "next"
    /\ IF step < LastStep
       THEN step' = step + 1 /\ pc' = "write"
       ELSE step' = step /\ pc' = "done"
    /\ UNCHANGED <<storeExists, ioLog, printed, chain, rk4Calls, rk4Returns, workers>>
    /\ UNCHANGED rk4Vars

(***************************************************************************)
(* rk4_step                                                                *)
(***************************************************************************)
AllTodo == [i \in Sites(chain) |-> "todo"]
NoOutput == [i \in Sites(chain) |-> Unwritten]

\* rk4_step(&chain) is entered: the k1 map over chain is set up
Rk4Call ==
    /\ pc = "call"
    /\ pc' = "rk4"
    /\ rk4Calls' = rk4Calls + 1
    /\ stage' = 1
    /\ tmp' = chain
    /\ k' = [s \in Stages |-> << >>]
    /\ out' = NoOutput
    /\ task' = AllTodo
    /\ begun' = NoStage
    /\ finished' = NoStage
    /\ UNCHANGED <<mainVars, chain, rk4Returns, workers, busy>>

\* an idle worker takes a site of the running map
StartTask(w, i) ==
    /\ pc = "rk4"
    /\ stage \in Stages
    /\ busy[w] = 0
    /\ task[i] = "todo"
    /\ task' = [task EXCEPT ![i] = "run"]
    /\ busy' = [busy EXCEPT ![w] = i]
    /\ begun' = [begun EXCEPT ![stage] = @ \cup {i}]
    /\ UNCHANGED <<mainVars, pc, chain, rk4Calls, rk4Returns, workers,
                   stage, tmp, k, out, finished>>

\* the worker finishes its site: the closure's value goes to the output
FinishTask(w) ==
    /\ pc = "rk4"
    /\ stage \in Stages
    /\ busy[w] # 0
    /\ LET i == busy[w]
       IN  /\ out' = StoreResult(out, i, TaskResult(tmp, i))
           /\ task' = [task EXCEPT ![i] = "done"]
           /\ finished' = [finished EXCEPT ![stage] = @ \cup {i}]
    /\ busy' = [busy EXCEPT ![w] = 0]
    /\ UNCHANGED <<mainVars, pc, chain, rk4Calls, rk4Returns, workers,
                   stage, tmp, k, begun>>

\* a join that waits only until every task has been taken
StageCompleteAllTaken == \A i \in Sites(chain) : task[i] # "todo"

\* collect() returns when every task of the map has completed
StageComplete == \A i \in Sites(chain) : task[i] = "done"

\* collect() returns k<stage>; the next trial chain and its map are set up
StageJoin ==
    /\ pc = "rk4"
    /\ stage \in Stages
    /\ StageComplete
    /\ k' = [k EXCEPT ![stage] = out]
    /\ stage' = stage + 1
    /\ IF stage < 4
       THEN /\ tmp' = Trial(chain, out, StageCoef(stage + 1))
            /\ out' = NoOutput
            /\ task' = AllTodo
       ELSE /\ tmp' = << >>
            /\ out' = << >>
            /\ task' = << >>
    /\ UNCHANGED <<mainVars, pc, chain, rk4Calls, rk4Returns, workers, busy,
                   begun, finished>>

\* final update + renormalise; rk4_step returns and main assigns chain
Combine ==
    /\ pc = "rk4"
    /\ stage = 5
    /\ chain' = SeqOf(LAMBDA i : CombineSite(chain[i], k[1][i], k[2][i],
                                              k[3][i], k[4][i]), Len(chain))
    /\ rk4Returns' = rk4Returns + 1
    /\ pc' = "next"
    /\ stage' = 0
    /\ tmp' = << >>
    /\ k' = [s \in Stages |-> << >>]
    /\ out' = << >>
    /\ task' = << >>
    /\ begun' = NoStage
    /\ finished' = NoStage
    /\ UNCHANGED <<mainVars, rk4Calls, workers, busy>>

Rk4Next ==
    \/ Rk4Call
    \/ \E w \in 1 .. workers : \E i \in Sites(chain) : StartTask(w, i)
    \/ \E w \in 1 .. workers : FinishTask(w)
    \/ StageJoin
    \/ Combine

Next ==
    \/ RemoveExisting
    \/ CreateStore
    \/ CreateGroup
    \/ BuildArray
    \/ StoreMetadata
    \/ WriteSlice
    \/ Progress
    \/ LoopNext
    \/ Rk4Next

Spec == Init /\ [][Next]_vars

(***************************************************************************)
(* rk4_step on its own, for every input chain of a bounded set             *)
(***************************************************************************)
InputVecs == {Tilted, Vec(Fx(1, 1), 0, 0), Vec(0, Fx(3, 5), Fx(4, 5))}

InputChains == UNION {[1 .. n -> InputVecs] : n \in 1 .. MaxSpins}

InitRk4 ==
    /\ pc = "call"
    /\ storeExists = FALSE
    /\ ioLog = << >>
    /\ printed = << >>
    /\ step = 0
    /\ chain \in InputChains
    /\ rk4Calls = 0
    /\ rk4Returns = 0
    /\ workers \in 1 .. MaxWorkers
    /\ busy = [w \in 1 .. workers |-> 0]
    /\ Rk4Idle

SpecRk4 == InitRk4 /\ [][Rk4Next]_vars


(***************************************************************************)
(* Properties                                                              *)
(***************************************************************************)
IsWrite(e) == e.op = "write"
IsOkWrite(e) == e.op = "write" /\ e.ok

\* the slice writes attempted, and those that succeeded, in order
Writes == SelectSeq(ioLog, IsWrite)
OkWrites == SelectSeq(ioLog, IsOkWrite)

\* the time index a write addresses
TimeIndex(e) == e.subset[1][1]

Failed == \E j \in 1 .. Len(ioLog) : ~ioLog[j].ok

IsUniform(chain_) == \A i \in Sites(chain_) : chain_[i] = chain_[1]

\* C1: every slice write addresses a region inside the declared array shape:
\* the single time index of its step and the full extent (1, 1, N_SPINS, 3) of
\* the other four axes, with N_SPINS * 3 values.
C1_SliceWithinShape ==
    \A j \in 1 .. Len(Writes) :
        LET r == Writes[j].subset
        IN  /\ Len(r) = Len(ArrayShape)
            /\ \A a \in 1 .. Len(r) : 0 <= r[a][1] /\ r[a][1] < r[a][2]
                                      /\ r[a][2] <= ArrayShape[a]
            /\ r[1][2] = r[1][1] + 1
            /\ \A a \in 2 .. Len(r) : r[a] = <<0, ArrayShape[a]>>
            /\ Len(Writes[j].data) = N_SPINS * 3

\* C2: the successful slice writes address the time indices 0, 1, 2, ... in
\* this order, and when the run has ended without error every index of
\* 0..N_STEPS has been written exactly once.
C2_WritesInOrder ==
    /\ \A j \in 1 .. Len(OkWrites) : OkWrites[j].subset[1] = <<j - 1, j>>
    /\ pc = "done" => Len(OkWrites) = N_STEPS + 1 /\ Len(Writes) = N_STEPS + 1

C2_Witness == pc = "done" /\ ~Failed /\ Len(OkWrites) = N_STEPS + 1

\* C3: in one rk4_step no task of stage s+1 has started unless every task of
\* stage s has completed, the final update is not reached before every task of
\* k4 has completed, and an rk4_step runs only when every earlier one has
\* returned.
C3_StageBarrier ==
    /\ \A s \in 1 .. 3 : begun[s + 1] # {} => finished[s] = Sites(chain)
    /\ \A s \in Stages : finished[s] \subseteq begun[s]
    /\ stage = 5 => finished[4] = Sites(chain)
    /\ rk4Calls - rk4Returns \in {0, 1}
    /\ begun[1] # {} => rk4Returns = rk4Calls - 1

C3_Witness ==
    /\ rk4Calls = 2
    /\ stage = 3
    /\ Cardinality({w \in 1 .. workers : busy[w] # 0}) = 2

\* within a stage the snapshot is left alone and a slot changes only when its
\* own task completes
SlotsWrittenByOwnTask ==
    (stage \in Stages /\ stage' = stage) =>
        (/\ tmp' = tmp
         /\ chain' = chain
         /\ \A i \in Sites(chain) :
                out'[i] # out[i] => (task[i] = "run" /\ task'[i] = "done"))

\* C4: whatever the order of the tasks and the number of workers, the slot of
\* every completed task holds the right-hand side of its own site on the
\* snapshot and every other slot is still unwritten; a step changes a slot only
\* by completing that slot's task, and the snapshot does not change during the
\* stage.
C4_OutputInIndexOrder ==
    /\ [](stage \in Stages =>
            \A i \in Sites(chain) :
                out[i] = IF task[i] = "done"
                         THEN llg_rhs(tmp[i], VAdd(H_EXT, exchange_field(tmp, i)))
                         ELSE Unwritten)
    /\ [][SlotsWrittenByOwnTask]_vars

C4_Witness ==
    /\ stage = 2
    /\ workers >= 2
    /\ Len(chain) >= 2
    /\ tmp[1] # tmp[Len(chain)]
    /\ task[Len(chain)] = "done"
    /\ task[1] = "todo"
    /\ out[Len(chain)] # Unwritten

\* C5: on a uniform snapshot, of any length, the exchange field is the zero
\* vector at every site, the two boundary sites included, so that every
\* completed task holds the right-hand side under H_EXT alone.
C5_UniformExchangeZero ==
    stage \in Stages /\ IsUniform(tmp) =>
        \A i \in Sites(tmp) :
            /\ exchange_field(tmp, i) = Zero3
            /\ task[i] = "done" => out[i] = llg_rhs(tmp[i], H_EXT)

C5_Witness ==
    /\ stage \in Stages
    /\ IsUniform(tmp)
    /\ Len(tmp) = MaxSpins
    /\ task[1] = "done"
    /\ task[Len(tmp)] = "done"
    /\ out[1] # Unwritten

\* C7: when the run has ended without error, rk4_step has been invoked exactly
\* N_STEPS times.
C7_OneCallPerStep == pc = "done" => rk4Calls = N_STEPS

\* after a failure no variable changes
NothingAfterFailure == Failed => UNCHANGED vars

\* C8: once a store operation has failed, main has returned the error, the
\* failed operation is the last one attempted, and nothing happens any more:
\* no further store operation, progress line or RK4 step.
C8_FailureIsFatal ==
    /\ [](Failed => /\ pc = "failed"
                    /\ \A j \in 1 .. Len(ioLog) : ~ioLog[j].ok <=> j = Len(ioLog))
    /\ [][NothingAfterFailure]_vars

C8_Witness ==
    /\ pc = "failed"
    /\ Len(OkWrites) = 1
    /\ ~ioLog[Len(ioLog)].ok
    /\ ioLog[Len(ioLog)].op = "write"
    /\ printed # << >>
    /\ rk4Returns = 1

\* the right-hand sides of a whole snapshot
StageRef(snapshot) ==
    SeqOf(LAMBDA i : llg_rhs(snapshot[i], VAdd(H_EXT, exchange_field(snapshot, i))),
          Len(snapshot))

\* the RK4 formula of the claim
RK4Ref(chain_) ==
    LET n == Len(chain_)
        half == FMul(HALF, DT)
        k1 == StageRef(chain_)
        k2 == StageRef(SeqOf(LAMBDA i : VAdd(chain_[i], VScale(half, k1[i])), n))
        k3 == StageRef(SeqOf(LAMBDA i : VAdd(chain_[i], VScale(half, k2[i])), n))
        k4 == StageRef(SeqOf(LAMBDA i : VAdd(chain_[i], VScale(DT, k3[i])), n))
    IN  SeqOf(LAMBDA i :
                normalize(VAdd(chain_[i],
                    VScale(FDiv(DT, SIX),
                        VAdd(VAdd(VAdd(k1[i], VScale(TWO, k2[i])),
                                  VScale(TWO, k3[i])),
                             k4[i])))),
              n)

\* rk4_step leaves its input alone until it returns the RK4 formula's value
StepReturnsRk4 ==
    pc = "rk4" => (IF pc' = "rk4" THEN chain' = chain ELSE chain' = RK4Ref(chain))

\* C9: k1 is evaluated on the input chain and k2, k3, k4 on the input chain
\* plus 0.5 dt k1, 0.5 dt k2 and dt k3, none of them normalised; the input chain
\* is unchanged while rk4_step runs; and rk4_step returns, site by site,
\* normalize(chain + (dt/6)(k1 + 2 k2 + 2 k3 + k4)).
C9_Rk4Formula ==
    /\ [](stage \in Stages =>
            tmp = IF stage = 1 THEN chain
                  ELSE SeqOf(LAMBDA i :
                               VAdd(chain[i],
                                    VScale(IF stage = 4 THEN DT ELSE FMul(HALF, DT),
                                           k[stage - 1][i])),
                             Len(chain)))
    /\ [][StepReturnsRk4]_vars

C9_Witness ==
    /\ rk4Returns = 1
    /\ pc = "next"
    /\ Len(chain) = MaxSpins
    /\ chain[1] # chain[2]

RECURSIVE RK4Iter(_)
\* the chain after t RK4 steps from the initial configuration
RK4Iter(t) == IF t = 0 THEN InitialChain ELSE RK4Ref(RK4Iter(t - 1))

\* C10: rk4_step is invoked only after the slice of the iteration has been
\* handed to the sink, step advances only after rk4_step has returned, and the
\* slice written at time index t is the chain after exactly t RK4 steps from
\* the initial tilted state.
C10_SliceHoldsTSteps ==
    /\ Len(Writes) - rk4Calls \in {0, 1}
    /\ rk4Returns - step \in {0, 1}
    /\ pc = "rk4" => rk4Calls = Len(Writes) /\ step = rk4Returns
    /\ chain = RK4Iter(rk4Returns)
    /\ \A j \in 1 .. Len(Writes) :
          Writes[j].data = Flatten(RK4Iter(TimeIndex(Writes[j])))
    /\ Writes # << >> => Writes[1].data = Flatten(SeqOf(LAMBDA i : Tilted, N_SPINS))
                         /\ TimeIndex(Writes[1]) = 0

C10_Witness ==
    /\ Len(OkWrites) = N_STEPS + 1
    /\ TimeIndex(OkWrites[N_STEPS + 1]) = N_STEPS
    /\ OkWrites[N_STEPS + 1].data # OkWrites[N_STEPS].data
    /\ OkWrites[N_STEPS + 1].data # OkWrites[1].data

=============================================================================
